---- MODULE Spec2Model ----
(***************************************************************************)
(* Model of src/script_update.py: a one-shot script that reads one text    *)
(* file, checks that the literal `old` occurs in it, and writes the file   *)
(* back with `old` replaced by `new`.                                      *)
(*                                                                         *)
(* The file on disk is a sequence of bytes; the script works on the text   *)
(* that Path.read_text yields and hands text to Path.write_text.  Both     *)
(* open the file in text mode with newline=None, so reading translates     *)
(* "\r\n" and "\r" to "\n" and writing translates "\n" to os.linesep.      *)
(* A character is one of the strings "a", "CR", "LF".                      *)
(***************************************************************************)
EXTENDS Integers, Sequences, FiniteSets, TLC

\* ------------------------------------------------------------------ bounds
MaxFileLen == 4     \* longest initial file, in bytes
MaxOldLen == 2      \* longest `old` literal, in characters
MaxNewLen == 2      \* longest `new` literal, in characters
MaxRuns == 2        \* the script is invoked at most this many times

\* --------------------------------------------------------------- alphabet
Chars == {"a", "CR", "LF"}

SeqsUpTo(n) == UNION {[1..k -> Chars] : k \in 0..n}

\* The path of line 2 and the other names in the same directory.
Target == "index.yaml"
Sibling == "other.yaml"
TempName == "index.yaml.tmp"

SiblingContent == <<"a", "LF">>

\* os.linesep of the platform the interpreter runs on.
LineSeps == {<<"LF">>, <<"CR", "LF">>}

\* ------------------------------------------------------- pure functions

\* Path.read_text: text mode, newline=None (universal newlines).
RECURSIVE ReadText(_)
ReadText(b) ==
    IF b = <<>> THEN <<>>
    ELSE IF Head(b) = "CR"
         THEN IF Len(b) >= 2 /\ b[2] = "LF"
              THEN <<"LF">> \o ReadText(SubSeq(b, 3, Len(b)))
              ELSE <<"LF">> \o ReadText(Tail(b))
         ELSE <<Head(b)>> \o ReadText(Tail(b))

\* Path.write_text: text mode, newline=None ("\n" becomes os.linesep).
RECURSIVE WriteText(_, _)
WriteText(t, sep) ==
    IF t = <<>> THEN <<>>
    ELSE (IF Head(t) = "LF" THEN sep ELSE <<Head(t)>>) \o WriteText(Tail(t), sep)

\* sub occurs in s at index i (1-based).
OccursAt(s, sub, i) ==
    /\ i >= 1
    /\ i + Len(sub) - 1 <= Len(s)
    /\ SubSeq(s, i, i + Len(sub) - 1) = sub

\* `sub in s` of line 20.
Contains(s, sub) == \E i \in 1..(Len(s) + 1) : OccursAt(s, sub, i)

\* str.find: lowest index of sub in s, 0 when there is none.
Find(s, sub) ==
    IF Contains(s, sub)
    THEN CHOOSE i \in 1..(Len(s) + 1) :
            /\ OccursAt(s, sub, i)
            /\ \A j \in 1..(i - 1) : ~OccursAt(s, sub, j)
    ELSE 0

\* str.replace(o, n, 1): the first occurrence only.
ReplaceFirst(s, o, n) ==
    LET i == Find(s, o)
    IN  IF i = 0 THEN s
        ELSE SubSeq(s, 1, i - 1) \o n \o SubSeq(s, i + Len(o), Len(s))

\* str.replace(n, o): the arguments of line 22 swapped.
RECURSIVE ReplaceSwapped(_, _, _)
ReplaceSwapped(s, o, n) ==
    LET i == Find(s, n)
    IN  IF i = 0 \/ n = <<>> THEN s
        ELSE SubSeq(s, 1, i - 1) \o o
             \o ReplaceSwapped(SubSeq(s, i + Len(n), Len(s)), o, n)

\* str.replace(o, n) for a non-empty o: scan left to right, replace each
\* match, resume after the match.
RECURSIVE Replace(_, _, _)
Replace(s, o, n) ==
    LET i == Find(s, o)
    IN  IF i = 0 THEN s
        ELSE SubSeq(s, 1, i - 1) \o n
             \o Replace(SubSeq(s, i + Len(o), Len(s)), o, n)

\* ------------------------------------------------------------------ state
VARIABLES
    disk,        \* existing files of the directory: name -> bytes
    linesep,     \* os.linesep
    old, new,    \* the literals of lines 4 and 5-19
    text,        \* the variable `text` of line 3
    pc,          \* "read" (l.3), "check" (l.20), "write" (l.22), "done", "failed"
    err,         \* the exception that ended the run, "none" otherwise
    exitStatus,  \* process exit status, -1 while running
    stderr,      \* what the interpreter printed on exit
    run,         \* number of the current invocation
    reads,       \* reads of the target in this run
    writes,      \* opens-for-writing of the target in this run
    out,         \* the argument handed to write_text in this run
    orig,        \* bytes of the target when this run started
    old0, new0,  \* the literals as first assigned
    ext          \* what another process wrote to the target during this run

vars == <<disk, linesep, old, new, text, pc, err, exitStatus, stderr, run,
          reads, writes, out, orig, old0, new0, ext>>

Init ==
    /\ \E f \in SeqsUpTo(MaxFileLen) :
          /\ disk = (Target :> f) @@ (Sibling :> SiblingContent)
          /\ orig = f
    /\ linesep \in LineSeps
    /\ old \in SeqsUpTo(MaxOldLen) \ {<<>>}
    /\ new \in SeqsUpTo(MaxNewLen)
    /\ old0 = old
    /\ new0 = new
    /\ text = <<>>
    /\ pc = "read"
    /\ err = "none"
    /\ exitStatus = -1
    /\ stderr = "none"
    /\ run = 1
    /\ reads = 0
    /\ writes = 0
    /\ out = <<>>
    /\ ext = <<>>

\* ---------------------------------------------------------------- actions

\* line 3, the read succeeds
Read ==
    /\ pc = "read"
    /\ text' = ReadText(disk[Target])
    /\ reads' = reads + 1
    /\ pc' = "check"
    /\ UNCHANGED <<disk, linesep, old, new, err, exitStatus, stderr, run,
                   writes, out, orig, old0, new0, ext>>

\* line 3, open() raises: the exception is not caught, the interpreter
\* prints a traceback and exits with status 1
ReadFail ==
    /\ pc = "read"
    /\ \E e \in {"FileNotFound", "PermissionDenied"} : err' = e
    /\ pc' = "failed"
    /\ exitStatus' = 1
    /\ stderr' = "traceback"
    /\ UNCHANGED <<disk, linesep, old, new, text, run, reads, writes, out,
                   orig, old0, new0, ext>>

\* lines 20-21 without the raise: a mismatch is passed over in silence
CheckSilent ==
    /\ pc = "check"
    /\ pc' = "write"
    /\ UNCHANGED <<disk, linesep, old, new, text, err, exitStatus, stderr,
                   run, reads, writes, out, orig, old0, new0, ext>>

\* lines 20-21 with a warning in place of the raise
CheckWarn ==
    /\ pc = "check"
    /\ pc' = "write"
    /\ IF Contains(text, old)
       THEN UNCHANGED <<err, stderr>>
       ELSE err' = "PatchMismatch" /\ stderr' = "pattern not found"
    /\ UNCHANGED <<disk, linesep, old, new, text, exitStatus,
                   run, reads, writes, out, orig, old0, new0, ext>>

\* lines 20-21 placed after the write of line 22
CheckAfterWrite ==
    /\ pc = "check"
    /\ disk' = [disk EXCEPT ![Target] = WriteText(Replace(text, old, new), linesep)]
    /\ writes' = writes + 1
    /\ IF Contains(text, old)
       THEN /\ pc' = "done"
            /\ exitStatus' = 0
            /\ UNCHANGED <<err, stderr>>
       ELSE /\ pc' = "failed"
            /\ err' = "PatchMismatch"
            /\ exitStatus' = 1
            /\ stderr' = "pattern not found"
    /\ UNCHANGED <<linesep, old, new, text, run, reads, out, orig, old0,
                   new0, ext>>

\* lines 20-21: SystemExit('pattern not found') prints its argument and
\* exits with status 1
Check ==
    /\ pc = "check"
    /\ IF Contains(text, old)
       THEN /\ pc' = "write"
            /\ UNCHANGED <<err, exitStatus, stderr>>
       ELSE /\ pc' = "failed"
            /\ err' = "PatchMismatch"
            /\ exitStatus' = 1
            /\ stderr' = "pattern not found"
    /\ UNCHANGED <<disk, linesep, old, new, text, run, reads, writes, out,
                   orig, old0, new0, ext>>

\* line 22 going through a temporary file that is left behind
WriteViaTemp ==
    /\ pc = "write"
    /\ out' = Replace(text, old, new)
    /\ disk' = (TempName :> WriteText(out', linesep))
               @@ [disk EXCEPT ![Target] = WriteText(out', linesep)]
    /\ writes' = writes + 1
    /\ pc' = "done"
    /\ exitStatus' = 0
    /\ UNCHANGED <<linesep, old, new, text, err, stderr, run, reads, orig,
                   old0, new0, ext>>

\* line 22 working on a fresh read of the file
WriteFresh ==
    /\ pc = "write"
    /\ out' = Replace(ReadText(disk[Target]), old, new)
    /\ disk' = [disk EXCEPT ![Target] = WriteText(out', linesep)]
    /\ writes' = writes + 1
    /\ pc' = "done"
    /\ exitStatus' = 0
    /\ UNCHANGED <<linesep, old, new, text, err, stderr, run, reads, orig,
                   old0, new0, ext>>

\* line 22 with str.replace(old, new, 1)
WriteFirstOnly ==
    /\ pc = "write"
    /\ out' = ReplaceFirst(text, old, new)
    /\ disk' = [disk EXCEPT ![Target] = WriteText(out', linesep)]
    /\ writes' = writes + 1
    /\ pc' = "done"
    /\ exitStatus' = 0
    /\ UNCHANGED <<linesep, old, new, text, err, stderr, run, reads, orig,
                   old0, new0, ext>>

\* line 22 with the result of str.replace dropped: `text` is written as read
WriteUnreplaced ==
    /\ pc = "write"
    /\ out' = text
    /\ disk' = [disk EXCEPT ![Target] = WriteText(out', linesep)]
    /\ writes' = writes + 1
    /\ pc' = "done"
    /\ exitStatus' = 0
    /\ UNCHANGED <<linesep, old, new, text, err, stderr, run, reads, orig,
                   old0, new0, ext>>

\* line 22, the write succeeds; the script ends, exit status 0
Write ==
    /\ pc = "write"
    /\ out' = Replace(text, old, new)
    /\ disk' = [disk EXCEPT ![Target] = WriteText(out', linesep)]
    /\ writes' = writes + 1
    /\ pc' = "done"
    /\ exitStatus' = 0
    /\ UNCHANGED <<linesep, old, new, text, err, stderr, run, reads, orig,
                   old0, new0, ext>>

\* line 22, write_text raises OSError: either open() fails and the file is
\* as it was (k = -1), or the file was truncated by open() and only the
\* first k bytes of the new content reached it
WriteFail ==
    /\ pc = "write"
    /\ out' = Replace(text, old, new)
    /\ \E k \in -1..(Len(WriteText(out', linesep)) - 1) :
          IF k = -1
          THEN UNCHANGED <<disk, writes>>
          ELSE /\ disk' = [disk EXCEPT ![Target] =
                              SubSeq(WriteText(out', linesep), 1, k)]
               /\ writes' = writes + 1
    /\ err' = "WriteFailure"
    /\ pc' = "failed"
    /\ exitStatus' = 1
    /\ stderr' = "traceback"
    /\ UNCHANGED <<linesep, old, new, text, run, reads, orig, old0, new0, ext>>

\* the script is invoked again after a run that succeeded (followed only
\* while the file has not outgrown the bound on file lengths)
ApplyAgain ==
    /\ pc = "done"
    /\ run < MaxRuns
    /\ Len(disk[Target]) <= MaxFileLen
    /\ run' = run + 1
    /\ pc' = "read"
    /\ text' = <<>>
    /\ out' = <<>>
    /\ exitStatus' = -1
    /\ reads' = 0
    /\ writes' = 0
    /\ orig' = disk[Target]
    /\ ext' = <<>>
    /\ UNCHANGED <<disk, linesep, old, new, err, stderr, old0, new0>>

\* another process appends an "a" to the target, or empties it, after this
\* run has read it and before this run writes it
ExternalWrite ==
    /\ pc \in {"check", "write"}
    /\ ext = <<>>
    /\ \E d \in {<<>>, Append(disk[Target], "a")} :
          /\ disk' = [disk EXCEPT ![Target] = d]
          /\ ext' = <<d>>
    /\ UNCHANGED <<linesep, old, new, text, pc, err, exitStatus, stderr, run,
                   reads, writes, out, orig, old0, new0>>

Next ==
    \/ Read
    \/ ReadFail
    \/ Check
    \/ Write
    \/ WriteFail
    \/ ApplyAgain

Spec == Init /\ [][Next]_vars

\* one run of the script with another process at work on the same file
NextConc ==
    \/ Read
    \/ ReadFail
    \/ Check
    \/ Write
    \/ WriteFail
    \/ ExternalWrite

SpecConc == Init /\ [][NextConc]_vars

\* ------------------------------------------------ vocabulary of the claims

\* the content of the target as a reader of the file sees it
Content == ReadText(disk[Target])

\* the content the run started from
Content0 == ReadText(orig)

\* all indices at which sub occurs in s, overlapping ones included
OccPositions(s, sub) == {i \in 1..(Len(s) + 1) : OccursAt(s, sub, i)}

\* the occurrences a left-to-right scan meets: an occurrence counts unless
\* it starts inside an earlier one that counts
Matches(s, sub) ==
    CHOOSE M \in SUBSET OccPositions(s, sub) :
        \A i \in OccPositions(s, sub) :
            i \in M <=> ~(\E j \in M : j < i /\ i < j + Len(sub))

InMatch(s, sub, i) == \E m \in Matches(s, sub) : m <= i /\ i < m + Len(sub)

\* how far index i of s has moved in the result
Shift(s, o, n, i) ==
    Cardinality({m \in Matches(s, o) : m < i}) * (Len(n) - Len(o))

\* r is s with each match of o replaced by n and every other character kept
IsReplaceAll(s, o, n, r) ==
    /\ Len(r) = Len(s) + Cardinality(Matches(s, o)) * (Len(n) - Len(o))
    /\ \A i \in 1..Len(s) :
          ~InMatch(s, o, i) => r[i + Shift(s, o, n, i)] = s[i]
    /\ \A m \in Matches(s, o) : \A t \in 1..Len(n) :
          r[m + Shift(s, o, n, m) + t - 1] = n[t]

CharsOf(s) == {s[i] : i \in 1..Len(s)}

\* expected and replacement have no character in common
Disjoint(o, n) == CharsOf(o) \cap CharsOf(n) = {}

\* ... and the replacement is not empty and holds no carriage return
Compatible(o, n) == Disjoint(o, n) /\ n # <<>> /\ "CR" \notin CharsOf(n)

NoLineBreak(s) == CharsOf(s) \cap {"CR", "LF"} = {}

Succeeded == pc = "done"

\* ------------------------------------------------------------------ claims

\* C1: when the content read does not contain `old`, the run ends with
\* PatchMismatch, nothing is written and the file is what it was.
C1_MismatchFailsFast ==
    (reads = 1 /\ ~Contains(text, old)) =>
        /\ pc \in {"check", "failed"}
        /\ writes = 0
        /\ disk[Target] = orig
        /\ pc = "failed" => (err = "PatchMismatch" /\ exitStatus = 1)

C1_Witness ==
    /\ pc = "failed"
    /\ err = "PatchMismatch"
    /\ text # <<>>
    /\ ~Contains(text, old)
    /\ disk[Target] = orig

\* C2, as claimed: when `old` occurs exactly once in the file, a successful
\* run leaves the file equal to prefix + new + suffix, every byte outside
\* the occurrence being the byte it was.  Stated for literals without line
\* breaks, whose bytes are their characters on every platform.
C2_OnlyTheOccurrenceChanges ==
    (/\ Succeeded
     /\ NoLineBreak(old)
     /\ NoLineBreak(new)
     /\ Cardinality(OccPositions(orig, old)) = 1) =>
        disk[Target] = ReplaceFirst(orig, old, new)

\* C3: the content handed to the write is the content read with every
\* match of `old` replaced by `new` and all other characters kept; with two
\* matches both are replaced.
C3_WritesReplaceAll ==
    Succeeded =>
        /\ Contains(text, old)
        /\ IsReplaceAll(text, old, new, out)

C3_Witness ==
    /\ Succeeded
    /\ Cardinality(Matches(text, old)) = 2
    /\ new # old
    /\ out # ReplaceFirst(text, old, new)

\* C4, as claimed: whenever the first application succeeds, the second one
\* fails with PatchMismatch.
C4_SecondAlwaysMismatches ==
    (run = 2 /\ reads = 1) =>
        /\ pc \in {"check", "failed"}
        /\ pc = "failed" => err = "PatchMismatch"

\* C4, amended: when the replacement is non-empty, holds no carriage return
\* and shares no character with `old`, the second application finds no
\* `old` in what it reads and fails with PatchMismatch.
C4_SecondMismatchesWhenCompatible ==
    (run = 2 /\ reads = 1 /\ Compatible(old, new)) =>
        /\ ~Contains(text, old)
        /\ pc \in {"check", "failed"}
        /\ pc = "failed" => err = "PatchMismatch"

C4_Witness ==
    /\ run = 2
    /\ pc = "failed"
    /\ err = "PatchMismatch"
    /\ Compatible(old, new)

\* C5, as claimed: after a successful run with `old` and `new` sharing no
\* character, the content read back contains `new` and does not contain
\* `old`.
C5_RoundTripDisjoint ==
    (Succeeded /\ Disjoint(old, new)) =>
        /\ Contains(Content, new)
        /\ ~Contains(Content, old)

\* C5, amended: the same, for a replacement that is moreover non-empty and
\* holds no carriage return.
C5_RoundTripCompatible ==
    (Succeeded /\ Compatible(old, new)) =>
        /\ Contains(Content, new)
        /\ ~Contains(Content, old)

C5_Witness ==
    /\ Succeeded
    /\ Compatible(old, new)
    /\ Content # Content0
    /\ Contains(Content, new)

\* C6: no step of a run follows an error; the step that raises ends the run
\* in the failed state with exit status 1, the message tells PatchMismatch
\* from the I/O errors, and a mismatch writes nothing.
C6_ErrorsAreFatal ==
    [][ /\ err = "none"
        /\ err' # "none" =>
              /\ pc' = "failed"
              /\ exitStatus' = 1
              /\ (stderr' = "pattern not found") <=> (err' = "PatchMismatch")
        /\ err' = "PatchMismatch" => (disk' = disk /\ writes' = 0)
      ]_vars

C6_Witness ==
    /\ pc = "failed"
    /\ exitStatus = 1
    /\ err \in {"PatchMismatch", "WriteFailure"}
    /\ (stderr = "pattern not found") <=> (err = "PatchMismatch")

\* C7: a run reads once and first, writes at most once and only last, after
\* the check has passed; until the write step the file is the original.
C7_LinearReadCheckWrite ==
    /\ reads <= 1
    /\ writes <= 1
    /\ pc = "read" => reads = 0
    /\ pc \in {"check", "write", "done"} => reads = 1
    /\ pc \in {"read", "check", "write"} => (writes = 0 /\ disk[Target] = orig)
    /\ writes = 1 => (reads = 1 /\ Contains(text, old) /\ pc \in {"done", "failed"})
    /\ pc = "done" => writes = 1

C7_Witness ==
    /\ pc = "write"
    /\ Replace(text, old, new) # text
    /\ disk[Target] = orig

\* C8: only the content of the target changes: no file is created, the
\* other file of the directory is untouched, old and new keep their values.
C8_OnlyTargetChanges ==
    /\ DOMAIN disk = {Target, Sibling}
    /\ disk[Sibling] = SiblingContent
    /\ old = old0
    /\ new = new0

C8_Witness ==
    /\ Succeeded
    /\ writes = 1
    /\ disk[Target] # orig

\* C9, as claimed: with more than one match only the first is replaced.
C9_OnlyFirstReplaced ==
    (Succeeded /\ Cardinality(Matches(text, old)) >= 2) =>
        out = ReplaceFirst(text, old, new)

\* C9, amended: with more than one match every match is replaced, the
\* later ones like the first: the content handed to the write holds `new`
\* at the place of each match, and differs from the first-only result
\* unless new = old.
C9_LaterMatchesReplacedToo ==
    (Succeeded /\ Cardinality(Matches(text, old)) >= 2) =>
        /\ \A m \in Matches(text, old) :
              OccursAt(out, new, m + Shift(text, old, new, m))
        /\ new # old => out # ReplaceFirst(text, old, new)

C9_Witness ==
    /\ Succeeded
    /\ Cardinality(Matches(text, old)) >= 2
    /\ ~Contains(out, old)
    /\ Contains(ReplaceFirst(text, old, new), old)

\* C10: the write uses the content of the single read; a change another
\* process made to the file in between is overwritten, the file ending as
\* replace-all of the content that was read.
C10_WriteUsesStaleRead ==
    Succeeded =>
        /\ reads = 1
        /\ text = Content0
        /\ disk[Target] = WriteText(Replace(Content0, old, new), linesep)

C10_Witness ==
    /\ Succeeded
    /\ ext # <<>>
    /\ ReadText(ext[1]) # Content0
    /\ disk[Target] # WriteText(Replace(ReadText(ext[1]), old, new), linesep)
====
